---- MODULE Spec2Model ----
(***************************************************************************)
(* Model of surveygizmo.py: the configuration holder (_Config), the        *)
(* request/auth dispatcher (_API) and the facade (SurveyGizmo).            *)
(*                                                                         *)
(* Encoding of Python values:                                              *)
(*   - None is the token None; the empty string is "".  Python's `not x`   *)
(*     is Falsy(x).                                                        *)
(*   - a formatted string ("%s%s" % (a, b)) is the sequence of its pieces, *)
(*     so concatenation is \o and two strings are equal exactly when their *)
(*     pieces are.                                                         *)
(*   - a dict is the set of its items [k |-> key, v |-> value], with at    *)
(*     most one item per key; dict.update is DictUpdate.                   *)
(*   - the key 'filter[field][%d]' % i is [name |-> "filter[field]",       *)
(*     idx |-> i]; a key with no index has idx = -1.                       *)
(***************************************************************************)
EXTENDS Integers, Sequences, FiniteSets, TLC

\* config        the _Config object's attributes
\* filters       _API._filters
\* session       _API._session (NoSession for None)
\* builds        how many times SGAuthService(...).get_session() has run
\* adds          add_filter calls since _filters was last emptied
\* lastOp        the last call made on the facade, with its arguments
\* ret           what that call returned or raised
\* callerParams  the caller's params mapping after that call
\* io            the GET that call issued, if any
VARIABLES config, filters, session, builds, adds, lastOp, ret, callerParams, io

vars == <<config, filters, session, builds, adds, lastOp, ret, callerParams, io>>

\* ---------------------------------------------------------------- bounds
\* add_filter is called at most this many times between two clearings
MaxFilters == 3
\* the OAuth helper is asked for a session at most this many times
MaxBuilds == 2
\* depth at which the interpreter stops nested calls (sys.getrecursionlimit)
RecursionLimit == 4

\* ---------------------------------------------------------------- values
None == "<None>"

Falsy(x) == x = None \/ x = ""

AuthMethods == {"user:pass", "user:md5", "oauth"}

ResponseTypes == {"json", "pson", "xml", "debug", None}

\* hashlib.md5(password).hexdigest()
Md5Hex(password) ==
    CASE password = "secret" -> "5ebe2294ecd0e0f08eab7690d2a6ee69"
      [] password = "hunter2" -> "2ab96390c7dbe3439de74d0c9b0b1767"
      [] password = "x" -> "9dd4e461268c8034f5c8564e155c67a6"
      [] OTHER -> "TypeError"

\* _Config.__init__ with no keyword arguments
DefaultConfig ==
    [api_version |-> "head", auth_method |-> None, username |-> None,
     password |-> None, md5_hash |-> None, consumer_key |-> None,
     consumer_secret |-> None, access_token |-> None,
     access_token_secret |-> None, response_type |-> None]

\* ---------------------------------------------------------------- results
\* what the last call gave back to its caller
NoRet == [kind |-> "none", exc |-> "", url |-> <<>>, params |-> {}, value |-> ""]

Raise(e) == [NoRet EXCEPT !.kind = "raise", !.exc = e]

Pair(u, p) == [NoRet EXCEPT !.kind = "pair", !.url = u, !.params = p]

Value(v) == [NoRet EXCEPT !.kind = "value", !.value = v]

NoIO == [via |-> "none", sess |-> 0]

NoSession == [id |-> 0, creds |-> <<>>]

Op(name) == [op |-> name, keep |-> FALSE, url_fetch |-> FALSE, paramsIn |-> {},
             tail |-> <<>>, obj |-> "", name |-> "", status |-> 0]

\* ---------------------------------------------------------------- _Config
\* validate() with the user:pass check asking for either credential only
ValidateAuthWrong(c) ==
    IF c.auth_method \notin AuthMethods
    THEN "ImproperlyConfigured"
    ELSE IF c.auth_method = "user:pass"
         THEN IF Falsy(c.username) /\ Falsy(c.password)
              THEN "ImproperlyConfigured" ELSE "ok"
         ELSE IF c.auth_method = "user:md5"
         THEN IF Falsy(c.username) THEN "ImproperlyConfigured"
              ELSE IF Falsy(c.password) /\ Falsy(c.md5_hash)
                   THEN "ImproperlyConfigured" ELSE "ok"
         ELSE IF Falsy(c.consumer_key) \/ Falsy(c.consumer_secret)
                 \/ Falsy(c.access_token) \/ Falsy(c.access_token_secret)
              THEN "ImproperlyConfigured" ELSE "ok"

\* lines 35-49 of validate(): the checks on auth_method and its credentials
ValidateAuth(c) ==
    IF c.auth_method \notin AuthMethods
    THEN "ImproperlyConfigured"
    ELSE IF c.auth_method = "user:pass"
         THEN IF Falsy(c.username) \/ Falsy(c.password)
              THEN "ImproperlyConfigured" ELSE "ok"
         ELSE IF c.auth_method = "user:md5"
         THEN IF Falsy(c.username) THEN "ImproperlyConfigured"
              ELSE IF Falsy(c.password) /\ Falsy(c.md5_hash)
                   THEN "ImproperlyConfigured" ELSE "ok"
         ELSE IF Falsy(c.consumer_key) \/ Falsy(c.consumer_secret)
                 \/ Falsy(c.access_token) \/ Falsy(c.access_token_secret)
              THEN "ImproperlyConfigured" ELSE "ok"

\* _Config.validate: "ok" when it returns, else the exception it raises
Validate(c) ==
    IF ValidateAuth(c) # "ok" THEN ValidateAuth(c)
    ELSE IF c.response_type \notin ResponseTypes
         THEN "ImproperlyConfigured" ELSE "ok"

\* ------------------------------------------------- specification: validate
\* every combination of the fields validate() reads
StrValues == {None, "", "x"}

ConfigSpace ==
    [api_version : {"head"},
     auth_method : AuthMethods \cup {None, "basic"},
     username : StrValues, password : StrValues, md5_hash : StrValues,
     consumer_key : StrValues, consumer_secret : StrValues,
     access_token : StrValues, access_token_secret : StrValues,
     response_type : ResponseTypes \cup {"", "csv"}]

InitValidate ==
    /\ config \in ConfigSpace
    /\ filters = <<>>
    /\ session = NoSession
    /\ builds = 0
    /\ adds = 0
    /\ lastOp = Op("init")
    /\ ret = NoRet
    /\ callerParams = {}
    /\ io = NoIO

\* config.validate() called by itself
ValidateCall ==
    /\ lastOp' = Op("validate")
    /\ ret' = IF Validate(config) = "ok" THEN NoRet ELSE Raise(Validate(config))
    /\ io' = NoIO
    /\ callerParams' = {}
    /\ UNCHANGED <<config, filters, session, builds, adds>>

NextValidate == ValidateCall

SpecValidate == InitValidate /\ [][NextValidate]_vars

\* the conditions under which validate() is documented to fail
Rejected(c) ==
    \/ c.auth_method \notin {"user:pass", "user:md5", "oauth"}
    \/ c.auth_method = "user:pass" /\ (Falsy(c.username) \/ Falsy(c.password))
    \/ c.auth_method = "user:md5"
        /\ (Falsy(c.username) \/ (Falsy(c.password) /\ Falsy(c.md5_hash)))
    \/ c.auth_method = "oauth"
        /\ \E f \in {"consumer_key", "consumer_secret", "access_token",
                     "access_token_secret"} : Falsy(c[f])
    \/ c.response_type \notin {"json", "pson", "xml", "debug", None}

\* C1: validate() raises ImproperlyConfigured exactly for the rejected
\* configurations, returns normally for every other one, and in both cases
\* leaves the configuration as it was.
C1_ValidateExact ==
    [][lastOp'.op = "validate" =>
        /\ config' = config
        /\ (ret'.kind = "raise" /\ ret'.exc = "ImproperlyConfigured") <=> Rejected(config)
        /\ ret'.kind = "none" <=> ~Rejected(config)]_vars

\* validate() has accepted a user:md5 configuration that has a hash and no
\* password
C1_Witness ==
    /\ lastOp.op = "validate"
    /\ ret.kind = "none"
    /\ config.auth_method = "user:md5"
    /\ Falsy(config.password)
    /\ ~Falsy(config.md5_hash)

\* ---------------------------------------------------------------- dicts
Key(name, i) == [name |-> name, idx |-> i]

PlainKey(name) == [name |-> name, idx |-> -1]

Item(key, value) == [k |-> key, v |-> value]

Keys(d) == {x.k : x \in d}

\* d.update(e)
DictUpdate(d, e) == {x \in d : x.k \notin Keys(e)} \cup e

\* ---------------------------------------------------------------- _API
\* _API.base_url
base_url == <<"https://restapi.surveygizmo.com/">>

\* add_filter numbering each filter one past the current length
FilterIndexOneBased(flt) == Len(flt) + 1

\* i = len(self._filters)
FilterIndex(flt) == Len(flt)

\* str(x) of a string x: the string, as the sequence of its one piece
Str(x) == <<x>>

\* the dict add_filter appends
FilterDict(i, field, operator, value) ==
    {Item(Key("filter[field]", i), Str(field)),
     Item(Key("filter[operator]", i), Str(operator)),
     Item(Key("filter[value]", i), Str(value))}

\* for _filter in self._filters: params.update(_filter)
RECURSIVE MergeFilters(_, _)
MergeFilters(params, flt) ==
    IF flt = <<>> THEN params
    ELSE MergeFilters(DictUpdate(params, Head(flt)), Tail(flt))

\* prepare dropping the filters whatever keep says
FiltersAfterAlwaysCleared(flt, keep) == <<>>

\* if not keep: self._filters = []
FiltersAfter(flt, keep) == IF ~keep THEN <<>> ELSE flt

\* prepare hashing the password on every call
Md5MemoRecomputed(cfg) == [cfg EXCEPT !.md5_hash = Md5Hex(cfg.password)]

\* if not config.md5_hash: config.md5_hash = hashlib.md5(config.password).hexdigest()
Md5Memo(cfg) ==
    IF Falsy(cfg.md5_hash)
    THEN [cfg EXCEPT !.md5_hash = Md5Hex(cfg.password)]
    ELSE cfg

\* lines 174-184 of prepare(): the auth entry added to params, and the
\* configuration after it
AuthStep(cfg, params) ==
    IF cfg.auth_method = "user:pass"
    THEN [config |-> cfg,
          params |-> DictUpdate(params,
              {Item(PlainKey(cfg.auth_method), <<cfg.username, ":", cfg.password>>)})]
    ELSE IF cfg.auth_method = "user:md5"
    THEN [config |-> Md5Memo(cfg),
          params |-> DictUpdate(params,
              {Item(PlainKey(cfg.auth_method),
                    <<cfg.username, ":", Md5Memo(cfg).md5_hash>>)})]
    ELSE [config |-> cfg, params |-> params]

\* prepare emptying the filter list before it validates
PrepareResultClearsFirst(cfg, flt, tail, params, keep) ==
    IF Validate(cfg) # "ok"
    THEN [config |-> cfg, filters |-> FiltersAfter(flt, keep), params |-> params,
          ret |-> Raise(Validate(cfg))]
    ELSE [config |-> AuthStep(cfg, MergeFilters(params, flt)).config,
          filters |-> FiltersAfter(flt, keep),
          params |-> AuthStep(cfg, MergeFilters(params, flt)).params,
          ret |-> Pair(base_url \o tail,
                       AuthStep(cfg, MergeFilters(params, flt)).params)]

\* _API.prepare(tail, params, keep): the configuration, the filter list and
\* the caller's mapping after the call, and what the call returns or raises
PrepareResult(cfg, flt, tail, params, keep) ==
    IF Validate(cfg) # "ok"
    THEN [config |-> cfg, filters |-> flt, params |-> params,
          ret |-> Raise(Validate(cfg))]
    ELSE [config |-> AuthStep(cfg, MergeFilters(params, flt)).config,
          filters |-> FiltersAfter(flt, keep),
          params |-> AuthStep(cfg, MergeFilters(params, flt)).params,
          ret |-> Pair(base_url \o tail,
                       AuthStep(cfg, MergeFilters(params, flt)).params)]

\* ---------------------------------------------------------------- transport
\* the responses the transport may give to a GET
Statuses == {200, 304, 404, 500}

JsonBody == "{\"result\":1}"

Bodies == {JsonBody, "<result>1</result>"}

\* requests.get / session.get raising instead of answering
NoResponse == [status |-> 0, body |-> ""]

Responses == [status : Statuses, body : Bodies] \cup {NoResponse}

\* response.raise_for_status() never raising
StatusRaisesNever(resp) == FALSE

\* response.raise_for_status(): raises HTTPError for a 4xx or 5xx status
StatusRaises(resp) == resp.status >= 400 /\ resp.status < 600

\* response.json()
JsonDecode(body) ==
    IF body = JsonBody THEN Value("{result: 1}") ELSE Raise("ValueError")

\* lines 202-211 of execute(): what is done with the transport's answer
Decode(cfg, resp) ==
    IF resp = NoResponse THEN Raise("ConnectionError")
    ELSE IF StatusRaises(resp) THEN Raise("HTTPError")
    ELSE IF Falsy(cfg.response_type) THEN JsonDecode(resp.body)
         ELSE Value(resp.body)

\* execute asking the helper for a session on every oauth call
NeedSessionAlways(sess) == TRUE

\* if not self._session
NeedSession(sess) == sess = NoSession

\* oauth_helper.SGAuthService(key, secret, token, token_secret).get_session()
GetSession(cfg, n) ==
    [id |-> n, creds |-> <<cfg.consumer_key, cfg.consumer_secret,
                           cfg.access_token, cfg.access_token_secret>>]

\* _API.execute(url, params) when the transport answers with resp
ExecuteResult(cfg, sess, n, resp) ==
    IF cfg.auth_method = "oauth"
    THEN LET s == IF NeedSession(sess) THEN GetSession(cfg, n + 1) ELSE sess
             m == IF NeedSession(sess) THEN n + 1 ELSE n
         IN [session |-> s, builds |-> m,
             io |-> [via |-> "session", sess |-> s.id],
             ret |-> Decode(cfg, resp)]
    ELSE [session |-> sess, builds |-> n,
          io |-> [via |-> "plain", sess |-> 0],
          ret |-> Decode(cfg, resp)]

\* ---------------------------------------------------------------- attributes
\* what an _API instance and its class define (lines 55-63, 65, 79, 86, 107,
\* 159, 189)
ApiAttrs == {"_config", "_resources", "_filters", "_session", "base_url",
             "_import_api", "_wrap", "add_filter", "prepare", "execute"}

\* what a SurveyGizmo instance defines (lines 218-219)
FacadeAttrs == {"config", "api"}

\* _API.__getattr__(name), entered with depth calls already on the stack:
\* "found", or the exception raised.  self._modules is itself an attribute
\* lookup on the same object.
RECURSIVE ApiGetattr(_, _)
ApiGetattr(name, depth) ==
    IF depth >= RecursionLimit THEN "RecursionError"
    ELSE LET modules == IF "_modules" \in ApiAttrs THEN "found"
                        ELSE ApiGetattr("_modules", depth + 1)
         IN IF modules # "found" THEN modules
            ELSE "AttributeError"

\* obj.name: the normal lookup first, then the class's __getattr__ if it has one
GetAttribute(obj, name) ==
    IF obj = "api"
    THEN IF name \in ApiAttrs THEN "found" ELSE ApiGetattr(name, 1)
    ELSE IF name \in FacadeAttrs THEN "found" ELSE "AttributeError"

\* ---------------------------------------------------------------- _wrap
\* lines 96-99 of wrapper: the tail with the response type and the version
WrapTail(cfg, tail) ==
    <<cfg.api_version, "/">> \o
        (IF ~Falsy(cfg.response_type) THEN tail \o <<".", cfg.response_type>> ELSE tail)

\* the function _wrap(func) returns, called with keep and url_fetch, func
\* returning (tail, params) and the transport answering with resp
WrapperResult(cfg, flt, sess, n, tail, params, keep, url_fetch, resp) ==
    LET unchanged == [config |-> cfg, filters |-> flt, session |-> sess,
                      builds |-> n, params |-> params, io |-> NoIO]
        prep == PrepareResult(cfg, flt, WrapTail(cfg, tail), params, keep)
        prepared == [unchanged EXCEPT !.config = prep.config,
                                      !.filters = prep.filters,
                                      !.params = prep.params]
        exec == ExecuteResult(prep.config, sess, n, resp)
    IN IF GetAttribute("api", "_sg") # "found"
       THEN [state |-> unchanged, ret |-> Raise(GetAttribute("api", "_sg"))]
       ELSE IF GetAttribute("api", "_api_version") # "found"
       THEN [state |-> unchanged, ret |-> Raise(GetAttribute("api", "_api_version"))]
       ELSE IF prep.ret.kind = "raise" \/ url_fetch
       THEN [state |-> prepared, ret |-> prep.ret]
       ELSE [state |-> [prepared EXCEPT !.session = exec.session,
                                        !.builds = exec.builds,
                                        !.io = exec.io],
             ret |-> exec.ret]

\* ---------------------------------------------------------------- inputs
\* SurveyGizmo(auth_method='user:pass', username='bob', password='secret')
UserConfig ==
    [DefaultConfig EXCEPT !.auth_method = "user:pass", !.username = "bob",
                          !.password = "secret"]

\* SurveyGizmo(auth_method='oauth', consumer_key='tok', ...)
OAuthConfig ==
    [DefaultConfig EXCEPT !.auth_method = "oauth", !.consumer_key = "tok",
                          !.consumer_secret = "tok", !.access_token = "tok",
                          !.access_token_secret = "tok"]

\* values assigned to the configuration's attributes
AttrValues(f) ==
    CASE f = "auth_method" -> AuthMethods \cup {None}
      [] f = "username" -> {None, "bob"}
      [] f = "password" -> {None, "secret", "hunter2"}
      [] f = "md5_hash" -> {None, "feedface"}
      [] f = "response_type" -> {None, "xml", "csv"}
      [] OTHER -> {None, "tok"}

UserAttrs == {"auth_method", "username", "password", "md5_hash", "response_type"}

OAuthAttrs == {"auth_method", "consumer_key", "consumer_secret", "access_token",
               "access_token_secret", "response_type"}

FormatAttrs == {"response_type"}

Fields == {"status", "title"}

Operators == {"="}

FilterValues == {"Active"}

Tails == {<<"survey">>}

ParamsIn == {{}, {Item(Key("filter[field]", 0), <<"createdon">>)}}

AttrNames == {"api", "_filters", "survey", "_modules"}

\* ---------------------------------------------------------------- actions
\* the facade right after SurveyGizmo(**kwargs) built cfg: no filters, no
\* session
Constructed(cfg) ==
    /\ config = cfg
    /\ filters = <<>>
    /\ session = NoSession
    /\ builds = 0
    /\ adds = 0
    /\ lastOp = Op("init")
    /\ ret = NoRet
    /\ callerParams = {}
    /\ io = NoIO

\* sg.config.<f> = v, for an attribute f among attrs
SetAttr(attrs) ==
    \E f \in attrs : \E v \in AttrValues(f) :
        /\ config' = [config EXCEPT ![f] = v]
        /\ lastOp' = Op("setattr")
        /\ ret' = NoRet
        /\ callerParams' = {}
        /\ io' = NoIO
        /\ UNCHANGED <<filters, session, builds, adds>>

\* sg.api.add_filter(field, operator, value)
AddFilter ==
    \E field \in Fields, operator \in Operators, value \in FilterValues :
        /\ Len(filters) < MaxFilters
        /\ filters' = Append(filters,
                             FilterDict(FilterIndex(filters), field, operator, value))
        /\ adds' = adds + 1
        /\ lastOp' = Op("add_filter")
        /\ ret' = NoRet
        /\ callerParams' = {}
        /\ io' = NoIO
        /\ UNCHANGED <<config, session, builds>>

\* sg.api.prepare(tail, params, keep)
Prepare ==
    \E tail \in Tails, params \in ParamsIn, keep \in BOOLEAN :
        LET r == PrepareResult(config, filters, tail, params, keep)
        IN /\ config' = r.config
           /\ filters' = r.filters
           /\ adds' = IF r.filters = <<>> THEN 0 ELSE adds
           /\ ret' = r.ret
           /\ callerParams' = r.params
           /\ lastOp' = [Op("prepare") EXCEPT !.keep = keep, !.paramsIn = params,
                                              !.tail = tail]
           /\ io' = NoIO
           /\ UNCHANGED <<session, builds>>

\* sg.api.execute(url, params)
Execute ==
    \E resp \in Responses :
        LET r == ExecuteResult(config, session, builds, resp)
        IN /\ r.builds <= MaxBuilds
           /\ session' = r.session
           /\ builds' = r.builds
           /\ io' = r.io
           /\ ret' = r.ret
           /\ lastOp' = [Op("execute") EXCEPT !.status = resp.status]
           /\ callerParams' = {}
           /\ UNCHANGED <<config, filters, adds>>

\* sg.api._wrap(func)(keep=..., url_fetch=...)
WrappedCall ==
    \E tail \in Tails, params \in ParamsIn, keep \in BOOLEAN, url_fetch \in BOOLEAN,
       resp \in Responses :
        LET r == WrapperResult(config, filters, session, builds, tail, params,
                               keep, url_fetch, resp)
        IN /\ r.state.builds <= MaxBuilds
           /\ config' = r.state.config
           /\ filters' = r.state.filters
           /\ adds' = IF r.state.filters = <<>> THEN 0 ELSE adds
           /\ session' = r.state.session
           /\ builds' = r.state.builds
           /\ io' = r.state.io
           /\ callerParams' = r.state.params
           /\ ret' = r.ret
           /\ lastOp' = [Op("wrapped") EXCEPT !.keep = keep, !.url_fetch = url_fetch,
                                              !.paramsIn = params, !.tail = tail]

\* sg.<name> and sg.api.<name>
GetAttr ==
    \E obj \in {"facade", "api"}, name \in AttrNames :
        /\ ret' = IF GetAttribute(obj, name) = "found" THEN Value("attribute")
                  ELSE Raise(GetAttribute(obj, name))
        /\ lastOp' = [Op("getattr") EXCEPT !.obj = obj, !.name = name]
        /\ callerParams' = {}
        /\ io' = NoIO
        /\ UNCHANGED <<config, filters, session, builds, adds>>

\* ------------------------------------- specification: filters and prepare
Init == \E cfg \in {DefaultConfig, OAuthConfig} : Constructed(cfg)

Next == SetAttr(UserAttrs) \/ AddFilter \/ Prepare

Spec == Init /\ [][Next]_vars

\* ------------------------------------------------- specification: execute
InitExecute == \E cfg \in {DefaultConfig, UserConfig} : Constructed(cfg)

NextExecute == SetAttr(OAuthAttrs) \/ Prepare \/ Execute

SpecExecute == InitExecute /\ [][NextExecute]_vars

\* --------------------------- specification: wrapped calls and name lookup
InitLookup == \E cfg \in {DefaultConfig, UserConfig, OAuthConfig} : Constructed(cfg)

NextLookup == SetAttr(FormatAttrs) \/ AddFilter \/ WrappedCall \/ GetAttr

SpecLookup == InitLookup /\ [][NextLookup]_vars

\* ---------------------------------------------------------------- claims
\* the three keys a filter with index i carries
Triad(i) == {Key("filter[field]", i), Key("filter[operator]", i),
             Key("filter[value]", i)}

OAuthCreds(c) == <<c.consumer_key, c.consumer_secret, c.access_token,
                   c.access_token_secret>>

\* C2: the filter list holds one entry per add_filter call since it was last
\* emptied, the entry at position k carries exactly the keys of index k (from
\* zero), and an entry that stays in the list stays as it is.
C2_FilterIndices ==
    /\ [](/\ Len(filters) = adds
          /\ \A k \in 1..Len(filters) : Keys(filters[k]) = Triad(k - 1))
    /\ [][\A k \in 1..Len(filters) :
            k <= Len(filters') => filters'[k] = filters[k]]_vars

\* a third filter was added to two accumulated ones and carries index 2
C2_Witness ==
    /\ lastOp.op = "add_filter"
    /\ Len(filters) = 3
    /\ Keys(filters[3]) = Triad(2)

\* C3: a prepare that returns gives back params holding every entry of every
\* filter accumulated before it; after it the filter list is empty when keep
\* is false and is the list it was when keep is true.
C3_PrepareKeep ==
    [][lastOp'.op = "prepare" /\ ret'.kind = "pair" =>
        /\ \A k \in 1..Len(filters) : filters[k] \subseteq ret'.params
        /\ filters' = IF lastOp'.keep THEN filters ELSE <<>>]_vars

\* a prepare with keep returned the filters merged and kept both of them
C3_Witness ==
    /\ lastOp.op = "prepare"
    /\ lastOp.keep
    /\ ret.kind = "pair"
    /\ Len(filters) = 2
    /\ filters[1] \cup filters[2] \subseteq ret.params

\* C6: a prepare that returns under user:md5 stores the MD5 hex digest of the
\* password as md5_hash when md5_hash was empty, leaves a non-empty md5_hash
\* as it was, and returns params whose user:md5 entry is username:md5_hash.
C6_Md5Memo ==
    [][lastOp'.op = "prepare" /\ ret'.kind = "pair" /\ config.auth_method = "user:md5" =>
        /\ Falsy(config.md5_hash) => config'.md5_hash = Md5Hex(config.password)
        /\ ~Falsy(config.md5_hash) => config'.md5_hash = config.md5_hash
        /\ Item(PlainKey("user:md5"), <<config.username, ":", config'.md5_hash>>)
              \in ret'.params]_vars

\* a prepare returned the memoized digest of an earlier password although the
\* password has changed since
C6_Witness ==
    /\ lastOp.op = "prepare"
    /\ ret.kind = "pair"
    /\ config.auth_method = "user:md5"
    /\ config.password = "hunter2"
    /\ config.md5_hash = Md5Hex("secret")
    /\ Item(PlainKey("user:md5"), <<"bob", ":", Md5Hex("secret")>>) \in ret.params

\* C10: a prepare called on a rejected configuration raises
\* ImproperlyConfigured and leaves the filter list, the configuration and the
\* caller's params as they were; the filters so retained are in the params
\* of any later prepare that returns.
C10_FailedPrepare ==
    [][lastOp'.op = "prepare" =>
        /\ Rejected(config) =>
            /\ ret' = Raise("ImproperlyConfigured")
            /\ filters' = filters
            /\ config' = config
            /\ callerParams' = lastOp'.paramsIn
        /\ ret'.kind = "pair" =>
            \A k \in 1..Len(filters) : filters[k] \subseteq callerParams']_vars

\* a prepare with keep false failed on a user:md5 configuration with no hash
\* yet, and the filter is still there
C10_Witness ==
    /\ lastOp.op = "prepare"
    /\ ~lastOp.keep
    /\ ret.kind = "raise"
    /\ Len(filters) >= 1
    /\ config.auth_method = "user:md5"
    /\ Falsy(config.md5_hash)
    /\ ~Falsy(config.password)

\* C4: no GET is issued, through the plain transport or a session, while the
\* configuration is one validate() rejects.
C4_NoGetWhenRejected == io.via # "none" => ~Rejected(config)

\* C5: the OAuth helper builds at most one session; an oauth execute creates
\* it from the four credentials when there is none and otherwise reuses the
\* stored one, and issues its GET through it; any other execute issues a plain
\* GET and leaves the session alone.
C5_SessionOnce ==
    /\ [](builds <= 1)
    /\ [][lastOp'.op = "execute" =>
            IF config.auth_method = "oauth"
            THEN /\ io'.via = "session"
                 /\ io'.sess = session'.id
                 /\ session' # NoSession
                 /\ session # NoSession => session' = session /\ builds' = builds
                 /\ session = NoSession =>
                       /\ builds' = builds + 1
                       /\ session'.creds = OAuthCreds(config)
            ELSE /\ io'.via = "plain"
                 /\ session' = session
                 /\ builds' = builds]_vars

\* an oauth execute went through the session built earlier from credentials
\* that have been changed since
C5_Witness ==
    /\ lastOp.op = "execute"
    /\ config.auth_method = "oauth"
    /\ io.via = "session"
    /\ builds = 1
    /\ session.creds # OAuthCreds(config)

C8_UrlFetch ==
    lastOp.op = "wrapped" /\ lastOp.url_fetch /\ ~Rejected(config) =>
        /\ ret.kind = "pair"
        /\ ret.url = base_url \o <<config.api_version, "/">> \o lastOp.tail \o
                (IF config.response_type = None THEN <<>>
                 ELSE <<".", config.response_type>>)
        /\ io = NoIO
        /\ session = NoSession

\* C9: looking up a name that neither the facade nor the dispatcher defines
\* raises AttributeError.
C9_NotFound ==
    lastOp.op = "getattr"
        /\ lastOp.name \notin (IF lastOp.obj = "api" THEN ApiAttrs ELSE FacadeAttrs)
        => ret = Raise("AttributeError")

====
